---- MODULE Spec2Model ----
(***************************************************************************)
(* A model of the gemdrive HTTP request layer (src/server.go): the mux     *)
(* closure installed by Server.Run and the handlers it dispatches to.      *)
(*                                                                         *)
(* Strings that the code parses (paths, header values, query values) are   *)
(* sequences of atoms.  An atom is a one-character string ("/", " ", "=",  *)
(* "-", "+", a digit) or a word that contains none of those characters     *)
(* ("gemdrive", "meta.json", "index.html", ...).  Concatenation of Go      *)
(* strings is \o, and strings.Split works on atoms exactly as it works on  *)
(* characters because no separator the code uses spans two words.          *)
(*                                                                         *)
(* int and int64 are modelled as IntWidth-bit two's complement integers.   *)
(***************************************************************************)
EXTENDS Integers, Sequences, FiniteSets, TLC

\* ------------------------------------------------------------------ bounds

\* Width in bits of the model's int / int64.
IntWidth == 5
\* Longest Range header value (in atoms) that SpecRange enumerates.
MaxRangeLen == 5
\* Longest Authorization header value (in atoms) that SpecToken enumerates.
MaxAuthLen == 4
\* Largest Item.Size the backend reports.
MaxSize == 3
\* The connections a run of the server accepts.
MaxConns == 3
\* The request goroutines that run at the same time.
MaxHandlers == 3

\* ---------------------------------------------------------------- integers

\* src/server.go:572, scaled to the model's integer width.
MAX_INT64 == 2^(IntWidth - 1) - 1

MIN_INT64 == 0 - 2^(IntWidth - 1)

\* Two's complement wrap-around of Go's int64 arithmetic.
Wrap(x) == ((x - MIN_INT64) % 2^IntWidth) + MIN_INT64

Digits == {"0", "1", "2", "3", "4", "5", "6", "7", "8", "9"}

DigitVal(c) ==
  CASE c = "0" -> 0 [] c = "1" -> 1 [] c = "2" -> 2 [] c = "3" -> 3
    [] c = "4" -> 4 [] c = "5" -> 5 [] c = "6" -> 6 [] c = "7" -> 7
    [] c = "8" -> 8 [] c = "9" -> 9

RECURSIVE DecimalValue(_, _)
\* The value of the digit string ds read after the digits valued acc;
\* saturates just above the integer range so that the model never leaves it.
DecimalValue(ds, acc) ==
  IF ds = <<>> THEN acc
  ELSE LET n == acc * 10 + DigitVal(Head(ds))
       IN  DecimalValue(Tail(ds), IF n > MAX_INT64 + 1 THEN MAX_INT64 + 1 ELSE n)

\* strconv.ParseInt(s, 10, 64) and strconv.Atoi(s): an optional sign, then one
\* or more decimal digits; a syntax error otherwise, a range error when the
\* value does not fit.  Every caller only tests err != nil.
ParseInt(s) ==
  LET signed == s # <<>> /\ Head(s) \in {"+", "-"}
      ds     == IF signed THEN Tail(s) ELSE s
      neg    == signed /\ Head(s) = "-"
      mag    == DecimalValue(ds, 0)
  IN  IF ds = <<>> \/ \E i \in 1..Len(ds) : ds[i] \notin Digits
        THEN [ok |-> FALSE, val |-> 0]
      ELSE IF neg
        THEN (IF mag > MAX_INT64 + 1 THEN [ok |-> FALSE, val |-> MIN_INT64]
              ELSE [ok |-> TRUE, val |-> 0 - mag])
      ELSE IF mag > MAX_INT64 THEN [ok |-> FALSE, val |-> MAX_INT64]
      ELSE [ok |-> TRUE, val |-> mag]

\* ----------------------------------------------------------------- strings

\* strings.Index(s, sep): the first position of sep in s, 0 when absent.
Index(s, sep) ==
  LET hits == {i \in 1..(Len(s) - Len(sep) + 1) :
                 SubSeq(s, i, i + Len(sep) - 1) = sep}
  IN  IF hits = {} THEN 0 ELSE CHOOSE i \in hits : \A j \in hits : i <= j

RECURSIVE Split(_, _)
\* strings.Split(s, sep) for a non-empty sep: the pieces of s around each
\* non-overlapping occurrence of sep, left to right.
Split(s, sep) ==
  LET i == Index(s, sep)
  IN  IF i = 0 THEN <<s>>
      ELSE <<SubSeq(s, 1, i - 1)>> \o Split(SubSeq(s, i + Len(sep), Len(s)), sep)

\* strings.HasSuffix(s, "/")
HasSlashSuffix(s) == s # <<>> /\ s[Len(s)] = "/"

\* All sequences over alphabet of length at most n.
SeqsUpTo(alphabet, n) == UNION {[1..k -> alphabet] : k \in 0..n}

\* ---------------------------------------------------------------- requests

\* An http.Request as the handlers read it.
\*   mapRoot        s.config.DomainMap[hostname], <<>> when the host is not mapped
\*   path           r.URL.Path
\*   accessToken, depth, offset, recursive, overwrite, download, id, code
\*                  r.URL.Query().Get(...), empty when absent
\*   authorization, range
\*                  r.Header.Get(...), empty when absent
\*   cookie         the access_token cookie
\*   framing        how the body is framed: "none" (no body, r.ContentLength = 0),
\*                  "chunked" (r.ContentLength = -1, no Content-Length header) or
\*                  "length" (Content-Length: declared)
\*   payload        what reading and decoding r.Body gives the authorize operation
NoCookie == [present |-> FALSE, value |-> <<>>]

Cookie(v) == [present |-> TRUE, value |-> v]

BaseRequest ==
  [method |-> "GET", mapRoot |-> <<>>, path |-> <<"/">>, accessToken |-> <<>>,
   authorization |-> <<>>, cookie |-> NoCookie, depth |-> <<>>, offset |-> <<>>,
   recursive |-> "", overwrite |-> "", download |-> "", id |-> "", code |-> "",
   range |-> <<>>, framing |-> "none", declared |-> 0, payload |-> "key"]

RECURSIVE FormatInt(_)
\* fmt.Sprintf("%d", n) and the decimal rendering net/http parses back.
FormatInt(n) ==
  IF n < 0 THEN <<"-">> \o FormatInt(0 - n)
  ELSE IF n < 10 THEN <<CHOOSE d \in Digits : DigitVal(d) = n>>
  ELSE FormatInt(n \div 10) \o <<CHOOSE d \in Digits : DigitVal(d) = n % 10>>

\* r.ContentLength as net/http sets it for a server request.
ContentLength(r) ==
  CASE r.framing = "none" -> 0
    [] r.framing = "chunked" -> 0 - 1
    [] r.framing = "length" -> r.declared

\* r.Header.Get("Content-Length")
ContentLengthHeader(r) ==
  IF r.framing = "length" THEN FormatInt(r.declared) ELSE <<>>

\* ---------------------------------------------------------- response writer

\* The state one handler run builds up: the http.ResponseWriter (status 0
\* until WriteHeader or the first Write), the calls made on the Auth engine
\* and the backend (log), what the handler's backend or handshake call
\* returned, the streams obtained and closed, and whether the goroutine
\* panicked.
NoCall ==
  [kind |-> "none", code |-> 0, msg |-> "", size |-> 0, children |-> {}]

NewCtx ==
  [status |-> 0, header |-> <<>>, body |-> <<>>, log |-> <<>>, returned |-> NoCall,
   opened |-> 0, closed |-> 0, panic |-> FALSE]

Event(op, args) == [op |-> op, args |-> args]

Log(c, op, args) == [c EXCEPT !.log = Append(@, Event(op, args))]

\* A call on the backend (or the Auth engine's handshake) that returns out.
Call(c, op, args, out) == [Log(c, op, args) EXCEPT !.returned = out]

\* header.Set(k, v) / header[k] = v: only has effect before the status line.
SetHeader(c, k, v) ==
  IF c.status # 0 THEN c
  ELSE [c EXCEPT !.header =
          [x \in (DOMAIN c.header) \cup {k} |-> IF x = k THEN v ELSE c.header[x]]]

\* w.WriteHeader(code): a second call is ignored by net/http.
WriteHeader(c, code) ==
  IF c.status # 0 THEN c
  ELSE Log([c EXCEPT !.status = code], "w.WriteHeader", <<code>>)

\* w.Write / io.WriteString: the first write sends status 200 if none was set.
Write(c, chunk) ==
  LET c1 == IF c.status = 0 THEN WriteHeader(c, 200) ELSE c
  IN  Log([c1 EXCEPT !.body = Append(@, chunk)], "w.Write", <<chunk>>)

\* An index out of range: the goroutine panics, net/http recovers and drops
\* the connection without completing a response.
Panic(c) == [c EXCEPT !.panic = TRUE]

\* ------------------------------------------------------------- Auth engine

TokRead == <<"r">>

TokWrite == <<"w">>

\* Auth.CanRead / Auth.CanWrite: the token store grants TokRead read access
\* and TokWrite read and write access; every other token, the empty one
\* included, is denied.
CanRead(token, path) == token \in {TokRead, TokWrite}

CanWrite(token, path) == token = TokWrite

\* ---------------------------------------------------------- extractToken

\* src/server.go:611-635
ExtractToken(r) ==
  IF r.accessToken # <<>>
    THEN [panic |-> FALSE, token |-> r.accessToken]
  ELSE IF r.authorization # <<>>
    THEN LET parts == Split(r.authorization, <<" ">>)
         IN  IF Len(parts) < 2 THEN [panic |-> TRUE, token |-> <<>>]
             ELSE [panic |-> FALSE, token |-> parts[2]]
  ELSE IF r.cookie.present
    THEN [panic |-> FALSE, token |-> r.cookie.value]
  ELSE [panic |-> FALSE, token |-> <<>>]

\* src/server.go:315-321
SendLoginPage(c) ==
  LET c1 == SetHeader(c, "WWW-Authenticate", "emauth realm=\"Everything\", charset=\"UTF-8\"")
      c2 == SetHeader(c1, "Content-Type", "text/html; charset=utf-8")
  IN  Write(WriteHeader(c2, 403), "loginHtml")

\* ------------------------------------------------------------------- paths

RECURSIVE CollapseSlashes(_)
CollapseSlashes(p) ==
  IF Len(p) < 2 THEN p
  ELSE IF p[1] = "/" /\ p[2] = "/" THEN CollapseSlashes(Tail(p))
  ELSE <<p[1]>> \o CollapseSlashes(Tail(p))

RECURSIVE TrimSlashes(_)
\* p without its trailing slashes
TrimSlashes(p) ==
  IF HasSlashSuffix(p) THEN TrimSlashes(SubSeq(p, 1, Len(p) - 1)) ELSE p

\* path.Clean for a path without "." and ".." elements: duplicate slashes
\* collapse, a trailing slash goes unless the path is the root, "" is ".".
Clean(p) ==
  LET q == CollapseSlashes(p)
  IN  IF q = <<>> THEN <<".">>
      ELSE IF q = <<"/">> THEN q
      ELSE TrimSlashes(q)

\* The position of the last "/" of p, 0 when it has none.
LastSlash(p) ==
  LET at == {i \in 1..Len(p) : p[i] = "/"}
  IN  IF at = {} THEN 0 ELSE CHOOSE i \in at : \A j \in at : j <= i

\* filepath.Dir
Dir(p) == Clean(SubSeq(p, 1, LastSlash(p)))

\* filepath.Base
Base(p) ==
  IF p = <<>> THEN <<".">>
  ELSE LET q == TrimSlashes(p)
       IN  IF q = <<>> THEN <<"/">>
           ELSE SubSeq(q, LastSlash(q) + 1, Len(q))

\* path.Join(a, b): empty elements are dropped, the rest joined and cleaned.
Join(a, b) ==
  IF a = <<>> /\ b = <<>> THEN <<>>
  ELSE IF a = <<>> THEN Clean(b)
  ELSE IF b = <<>> THEN Clean(a)
  ELSE Clean(a \o <<"/">> \o b)

\* ----------------------------------------------------------------- backend

\* What a backend call returns: an Item (and, for Read and GetImage, a
\* stream), a structured *Error{HttpCode, Message}, or any other error.
Ok(size, children) ==
  [kind |-> "ok", code |-> 0, msg |-> "", size |-> size, children |-> children]

StructuredError(code, msg) ==
  [kind |-> "error", code |-> code, msg |-> msg, size |-> 0, children |-> {}]

GenericError(msg) ==
  [kind |-> "generic", code |-> 0, msg |-> msg, size |-> 0, children |-> {}]

Failures ==
  {StructuredError(404, "Not found"), StructuredError(400, "Bad request"),
   GenericError("i/o error")}

\* Item.Children of a listing: child name -> size, as a set of pairs.
Listings ==
  {{}, {<<<<"a">>, 1>>}, {<<<<"a">>, 2>>, <<<<"b">>, 1>>}, {<<<<"b">>, 3>>}}

\* Backend.List(path, depth)
ListOutcomes == {Ok(0, ch) : ch \in Listings} \cup Failures

\* Backend.Read(path, offset, length)
ReadOutcomes == {Ok(n, {}) : n \in 0..MaxSize} \cup Failures

\* WritableBackend.Write / MakeDir / Delete and ImageServer.GetImage: nil or
\* an error.
CallOutcomes == {Ok(0, {})} \cup Failures

\* err.Error()
ErrorString(o) == o.msg

\* -------------------------------------------------------------- parseRange

RangeOk(start, end) == [ok |-> TRUE, start |-> start, end |-> end, msg |-> ""]

RangeErr(msg) == [ok |-> FALSE, start |-> 0, end |-> 0, msg |-> msg]

\* parseRange that only requires at least two parts around "=".
ParseRangeLenient(header) ==
  LET parts == Split(header, <<"=">>)
  IN  IF Len(parts) < 2 THEN RangeErr("Invalid Range header")
      ELSE LET rangeParts == Split(parts[2], <<"-">>)
           IN  IF Len(rangeParts) # 2 THEN RangeErr("Invalid Range header")
               ELSE LET s == ParseInt(rangeParts[1])
                        e == ParseInt(rangeParts[2])
                    IN  IF rangeParts[1] # <<>> /\ ~s.ok THEN RangeErr("strconv.ParseInt")
                        ELSE IF rangeParts[2] # <<>> /\ ~e.ok THEN RangeErr("strconv.ParseInt")
                        ELSE RangeOk(IF rangeParts[1] # <<>> THEN s.val ELSE 0,
                                     IF rangeParts[2] # <<>> THEN e.val ELSE MAX_INT64)

\* src/server.go:574-608
ParseRange(header) ==
  LET parts == Split(header, <<"=">>)
  IN  IF Len(parts) # 2 THEN RangeErr("Invalid Range header")
      ELSE LET rangeParts == Split(parts[2], <<"-">>)
           IN  IF Len(rangeParts) # 2 THEN RangeErr("Invalid Range header")
               ELSE LET s == ParseInt(rangeParts[1])
                        e == ParseInt(rangeParts[2])
                    IN  IF rangeParts[1] # <<>> /\ ~s.ok THEN RangeErr("strconv.ParseInt")
                        ELSE IF rangeParts[2] # <<>> /\ ~e.ok THEN RangeErr("strconv.ParseInt")
                        ELSE RangeOk(IF rangeParts[1] # <<>> THEN s.val ELSE 0,
                                     IF rangeParts[2] # <<>> THEN e.val ELSE MAX_INT64)

\* ---------------------------------------------------------------- handlers
\* A handler is an operator from the writer state c, the request r, the
\* request path and what its backend call returns to the writer state at
\* its return.

\* The error branches after List and Read: src/server.go:163-171, 359-367,
\* 534-542.
WriteBackendError(c, out) ==
  IF out.kind = "error" THEN Write(WriteHeader(c, out.code), out.msg)
  ELSE Write(WriteHeader(c, 500), ErrorString(out))

\* src/server.go:149-183
HandleHead(c, r, reqPath, out) ==
  LET t == ExtractToken(r)
  IN  IF t.panic THEN Panic(c)
      ELSE LET c1 == Log(c, "CanRead", <<t.token, reqPath>>)
           IN  IF ~CanRead(t.token, reqPath) THEN SendLoginPage(c1)
               ELSE LET parentDir == Dir(reqPath) \o <<"/">>
                        c2        == Call(c1, "List", <<parentDir, 1>>, out)
                        filename  == Base(reqPath)
                        found     == {ch \in out.children : ch[1] = filename}
                    IN  IF out.kind # "ok" THEN WriteBackendError(c2, out)
                        ELSE IF found = {} THEN Write(WriteHeader(c2, 404), "Not found")
                        ELSE SetHeader(c2, "Content-Length", (CHOOSE ch \in found : TRUE)[2])

\* query.Get("recursive") == "true": src/server.go:207, 306
IsRecursive(r) == r.recursive = "true"

\* overwrite unless the flag says "false".
IsOverwriteUnlessFalse(r) == r.overwrite # "false"

\* query.Get("overwrite") == "true": src/server.go:217
IsOverwrite(r) == r.overwrite = "true"

\* r.ContentLength < 1: src/server.go:220
InvalidWriteSize(r) == ContentLength(r) < 1

\* src/server.go:185-233
HandlePut(c, r, reqPath, writable, out) ==
  LET t == ExtractToken(r)
  IN  IF t.panic THEN Panic(c)
      ELSE LET c1 == Log(c, "CanWrite", <<t.token, reqPath>>)
           IN  IF ~CanWrite(t.token, reqPath) THEN SendLoginPage(c1)
               ELSE IF ~writable
                 THEN Write(WriteHeader(c1, 500), "Backend does not support writing")
               ELSE IF HasSlashSuffix(reqPath)
                 THEN LET c2 == Call(c1, "MakeDir", <<reqPath, IsRecursive(r)>>, out)
                      IN  IF out.kind # "ok"
                            THEN Write(WriteHeader(c2, 400), ErrorString(out))
                          ELSE c2
               ELSE IF InvalidWriteSize(r)
                 THEN Write(WriteHeader(c1, 400), "Invalid write size")
               ELSE LET c2 == Call(c1, "Write",
                                  <<reqPath, 0, ContentLength(r), IsOverwrite(r), TRUE>>, out)
                    IN  IF out.kind # "ok"
                          THEN Write(WriteHeader(c2, 500), ErrorString(out))
                        ELSE c2

\* src/server.go:235-286
HandlePatch(c, r, reqPath, writable, out) ==
  LET t == ExtractToken(r)
  IN  IF t.panic THEN Panic(c)
      ELSE LET c1 == Log(c, "CanWrite", <<t.token, reqPath>>)
               offset == ParseInt(r.offset)
               size   == ParseInt(ContentLengthHeader(r))
           IN  IF ~CanWrite(t.token, reqPath) THEN SendLoginPage(c1)
               ELSE IF ~writable
                 THEN Write(WriteHeader(c1, 500), "Backend does not support writing")
               ELSE IF r.offset # <<>> /\ ~offset.ok
                 THEN Write(WriteHeader(c1, 400), "Invalid offset")
               ELSE IF ~size.ok
                 THEN Write(WriteHeader(c1, 400), "Invalid content length")
               ELSE LET c2 == Call(c1, "Write",
                                  <<reqPath, IF r.offset = <<>> THEN 0 ELSE offset.val,
                                    size.val, TRUE, FALSE>>, out)
                    IN  IF out.kind # "ok"
                          THEN Write(WriteHeader(c2, 500), ErrorString(out))
                        ELSE c2

\* handleDelete that tests the backend for WritableBackend before the
\* capability.
HandleDeleteWritableFirst(c, r, reqPath, writable, out) ==
  LET t == ExtractToken(r)
  IN  IF t.panic THEN Panic(c)
      ELSE IF ~writable
        THEN Write(WriteHeader(c, 500), "Backend does not support writing")
      ELSE LET c1 == Log(c, "CanWrite", <<t.token, reqPath>>)
           IN  IF ~CanWrite(t.token, reqPath) THEN SendLoginPage(c1)
               ELSE LET c2 == Call(c1, "Delete", <<reqPath, IsRecursive(r)>>, out)
                    IN  IF out.kind # "ok"
                          THEN Write(WriteHeader(c2, 500), ErrorString(out))
                        ELSE c2

\* src/server.go:288-313
HandleDelete(c, r, reqPath, writable, out) ==
  LET t == ExtractToken(r)
  IN  IF t.panic THEN Panic(c)
      ELSE LET c1 == Log(c, "CanWrite", <<t.token, reqPath>>)
           IN  IF ~CanWrite(t.token, reqPath) THEN SendLoginPage(c1)
               ELSE IF ~writable
                 THEN Write(WriteHeader(c1, 500), "Backend does not support writing")
               ELSE LET c2 == Call(c1, "Delete", <<reqPath, IsRecursive(r)>>, out)
                    IN  IF out.kind # "ok"
                          THEN Write(WriteHeader(c2, 500), ErrorString(out))
                        ELSE c2

\* io.Copy(w, data): the stream's bytes go to the response; copyOk is false
\* when the client goes away and the copy ends early with an error.
Copy(c, copyOk) ==
  Write(Log(c, "io.Copy", <<copyOk>>), IF copyOk THEN "stream" ELSE "stream (cut short)")

\* A stream returned by Read or GetImage.
Open(c) == [c EXCEPT !.opened = @ + 1]

\* data.Close()
Close(c) == Log([c EXCEPT !.closed = @ + 1], "data.Close", <<>>)

\* serveDir that reports the backend's error as serveFile does.
ServeDirPropagates(c, r, reqPath, out, copyOk) ==
  LET htmlIndexPath == reqPath \o <<"index.html">>
      c1 == Call(c, "Read", <<htmlIndexPath, 0, 0>>, out)
  IN  IF out.kind # "ok" THEN WriteBackendError(c1, out)
      ELSE Copy(Open(c1), copyOk)

\* src/server.go:481-496
ServeDir(c, r, reqPath, out, copyOk) ==
  LET htmlIndexPath == reqPath \o <<"index.html">>
      c1 == Call(c, "Read", <<htmlIndexPath, 0, 0>>, out)
  IN  IF out.kind # "ok"
        THEN Write(WriteHeader(c1, 400), "Attempted to read directory")
      ELSE Copy(Open(c1), copyOk)

\* copyLength without the + 1.
CopyLengthOffByOne(rang) ==
  IF rang.end # MAX_INT64 THEN Wrap(rang.end - rang.start) ELSE 0

\* copyLength: src/server.go:513, 527-529
CopyLength(rang) ==
  IF rang.end # MAX_INT64 THEN Wrap(rang.end - rang.start + 1) ELSE 0

\* end: src/server.go:546-549
RangeEnd(rang, size) ==
  IF rang.end = MAX_INT64 THEN Wrap(size - 1) ELSE rang.end

\* serveFile that starts the copy before it sets the headers and the status.
ServeFileCopyFirst(c, r, reqPath, out, copyOk) ==
  LET c1 == SetHeader(c, "Accept-Ranges", "bytes")
      c2 == IF r.download = "true"
              THEN SetHeader(c1, "Content-Disposition", "attachment") ELSE c1
      ranged == r.range # <<>>
      rang   == ParseRange(r.range)
  IN  IF ranged /\ ~rang.ok THEN Write(WriteHeader(c2, 500), rang.msg)
      ELSE LET offset     == IF ranged THEN rang.start ELSE 0
               copyLength == IF ranged THEN CopyLength(rang) ELSE 0
               c3 == Call(c2, "Read", <<reqPath, offset, copyLength>>, out)
           IN  IF out.kind # "ok" THEN WriteBackendError(c3, out)
               ELSE LET c4  == Copy(Open(c3), copyOk)
                        end == RangeEnd(rang, out.size)
                        l   == Wrap(end - rang.start + 1)
                        c5  == IF ranged
                                 THEN WriteHeader(
                                        SetHeader(
                                          SetHeader(c4, "Content-Range",
                                                    <<rang.start, end, out.size>>),
                                          "Content-Length", l),
                                        206)
                               ELSE SetHeader(c4, "Content-Length", out.size)
                    IN  Close(c5)

\* src/server.go:498-562
ServeFile(c, r, reqPath, out, copyOk) ==
  LET c1 == SetHeader(c, "Accept-Ranges", "bytes")
      c2 == IF r.download = "true"
              THEN SetHeader(c1, "Content-Disposition", "attachment") ELSE c1
      ranged == r.range # <<>>
      rang   == ParseRange(r.range)
  IN  IF ranged /\ ~rang.ok THEN Write(WriteHeader(c2, 500), rang.msg)
      ELSE LET offset     == IF ranged THEN rang.start ELSE 0
               copyLength == IF ranged THEN CopyLength(rang) ELSE 0
               c3 == Call(c2, "Read", <<reqPath, offset, copyLength>>, out)
           IN  IF out.kind # "ok" THEN WriteBackendError(c3, out)
               ELSE LET c4  == Open(c3)
                        end == RangeEnd(rang, out.size)
                        l   == Wrap(end - rang.start + 1)
                        c5  == IF ranged
                                 THEN WriteHeader(
                                        SetHeader(
                                          SetHeader(c4, "Content-Range",
                                                    <<rang.start, end, out.size>>),
                                          "Content-Length", l),
                                        206)
                               ELSE SetHeader(c4, "Content-Length", out.size)
                    IN  Close(Copy(c5, copyOk))

\* serveItem without the return after sendLoginPage.
ServeItemNoReturn(c, r, reqPath, out, copyOk) ==
  LET t == ExtractToken(r)
  IN  IF t.panic THEN Panic(c)
      ELSE LET c1 == Log(c, "CanRead", <<t.token, reqPath>>)
               c2 == IF ~CanRead(t.token, reqPath) THEN SendLoginPage(c1) ELSE c1
           IN  IF HasSlashSuffix(reqPath) THEN ServeDir(c2, r, reqPath, out, copyOk)
               ELSE ServeFile(c2, r, reqPath, out, copyOk)

\* src/server.go:463-479
ServeItem(c, r, reqPath, out, copyOk) ==
  LET t == ExtractToken(r)
  IN  IF t.panic THEN Panic(c)
      ELSE LET c1 == Log(c, "CanRead", <<t.token, reqPath>>)
           IN  IF ~CanRead(t.token, reqPath) THEN SendLoginPage(c1)
               ELSE IF HasSlashSuffix(reqPath) THEN ServeDir(c1, r, reqPath, out, copyOk)
               ELSE ServeFile(c1, r, reqPath, out, copyOk)

\* The marker that selects the meta-protocol: "gemdrive/".
Marker == <<"gemdrive", "/">>

\* authorize that completes the handshake as soon as either parameter is given.
AuthorizeEitherParam(c, r, authOut) ==
  IF r.id # "" \/ r.code # ""
    THEN LET c1 == Call(c, "CompleteAuth", <<r.id, r.code>>, authOut)
         IN  IF authOut.kind # "ok" THEN Write(WriteHeader(c1, 400), ErrorString(authOut))
             ELSE Write(SetHeader(c1, "Set-Cookie",
                                  [name |-> "access_token", value |-> "token",
                                   httpOnly |-> TRUE, maxAge |-> 86400 * 365,
                                   path |-> "/", sameSite |-> "Lax"]),
                        "token")
  ELSE IF r.payload = "unreadable" THEN Write(WriteHeader(c, 400), "read error")
  ELSE IF r.payload = "not json" THEN Write(WriteHeader(c, 400), "json error")
  ELSE LET c1 == Call(c, "Authorize", <<r.payload>>, authOut)
       IN  IF authOut.kind # "ok" THEN Write(WriteHeader(c1, 400), ErrorString(authOut))
           ELSE Write(c1, "authId")

\* src/server.go:408-461.  authOut is what CompleteAuth or Authorize returns.
Authorize(c, r, authOut) ==
  IF r.id # "" /\ r.code # ""
    THEN LET c1 == Call(c, "CompleteAuth", <<r.id, r.code>>, authOut)
         IN  IF authOut.kind # "ok" THEN Write(WriteHeader(c1, 400), ErrorString(authOut))
             ELSE Write(SetHeader(c1, "Set-Cookie",
                                  [name |-> "access_token", value |-> "token",
                                   httpOnly |-> TRUE, maxAge |-> 86400 * 365,
                                   path |-> "/", sameSite |-> "Lax"]),
                        "token")
  ELSE IF r.payload = "unreadable" THEN Write(WriteHeader(c, 400), "read error")
  ELSE IF r.payload = "not json" THEN Write(WriteHeader(c, 400), "json error")
  ELSE LET c1 == Call(c, "Authorize", <<r.payload>>, authOut)
       IN  IF authOut.kind # "ok" THEN Write(WriteHeader(c1, 400), ErrorString(authOut))
           ELSE Write(c1, "authId")

\* The meta.json operation: src/server.go:344-377.  json.Marshal of an Item
\* does not fail.
MetaJson(c, r, gemPath, out) ==
  LET depth == ParseInt(r.depth)
  IN  IF r.depth # <<>> /\ ~depth.ok
        THEN Write(WriteHeader(c, 400), "Invalid depth param")
      ELSE LET c1 == Call(c, "List", <<gemPath, IF r.depth = <<>> THEN 1 ELSE depth.val>>, out)
           IN  IF out.kind # "ok" THEN WriteBackendError(c1, out)
               ELSE Write(c1, "json")

\* The images operation: src/server.go:379-404.
Images(c, gemPath, gemReqParts, imageServer, out, copyOk) ==
  IF ~imageServer THEN c
  ELSE IF Len(gemReqParts) < 2 THEN Panic(c)
  ELSE LET size == ParseInt(gemReqParts[2])
       IN  IF ~size.ok THEN Write(WriteHeader(c, 400), "strconv.Atoi")
           ELSE IF Len(gemReqParts) < 3 THEN Panic(c)
           ELSE LET imagePath == Join(gemPath, gemReqParts[3])
                    c1 == Call(c, "GetImage", <<imagePath, size.val>>, out)
                IN  IF out.kind # "ok"
                      THEN Write(WriteHeader(c1, 500), ErrorString(out))
                    ELSE Copy(Open(c1), copyOk)

\* src/server.go:323-406
HandleGemDriveRequest(c, r, reqPath, imageServer, out, copyOk) ==
  LET t == ExtractToken(r)
      pathParts == Split(reqPath, Marker)
      gemPath == pathParts[1]
      gemReq  == pathParts[2]
  IN  IF t.panic THEN Panic(c)
      ELSE IF gemReq = <<"authorize">> THEN Authorize(c, r, out)
      ELSE LET c1 == Log(c, "CanRead", <<t.token, gemPath>>)
               gemReqParts == Split(gemReq, <<"/">>)
           IN  IF ~CanRead(t.token, gemPath) THEN SendLoginPage(c1)
               ELSE IF gemReq = <<"meta.json">> THEN MetaJson(c1, r, gemPath, out)
               ELSE IF gemReqParts[1] = <<"images">>
                 THEN Images(c1, gemPath, gemReqParts, imageServer, out, copyOk)
               ELSE c1

\* --------------------------------------------------------------- the mux

\* reqPath after the hostname remap: src/server.go:86-95
ReqPath(r) == r.mapRoot \o r.path

\* len(pathParts) == 2: src/server.go:100, 106
IsGemDriveRequest(reqPath) == Len(Split(reqPath, Marker)) = 2

\* The CORS headers and the Content-Type by extension: src/server.go:77-81,
\* 102-104
Cors(c) ==
  SetHeader(SetHeader(SetHeader(c, "Access-Control-Allow-Origin", "*"),
                      "Access-Control-Allow-Methods", "*"),
            "Access-Control-Allow-Headers", "*")

Prelude(c) == SetHeader(Cors(c), "Content-Type", "by extension")

\* ------------------------------------------------------------------ inputs

File == <<"/", "a">>

Directory == <<"/", "a", "/">>

DirectPaths ==
  {File, Directory, <<"/">>, <<"/", "b", "/", "a">>,
   \* "gemdrive/" inside a longer name, and the marker twice
   <<"/", "my", "gemdrive", "/", "a">>,
   <<"/", "a", "/", "gemdrive", "/", "gemdrive", "/", "meta.json">>}

MetaPath == <<"/", "a", "/", "gemdrive", "/", "meta.json">>

GemPaths ==
  {MetaPath,
   <<"/", "a", "/", "gemdrive", "/", "authorize">>,
   <<"/", "a", "/", "gemdrive", "/", "images", "/", "2", "/", "b">>,
   <<"/", "a", "/", "gemdrive", "/", "images", "/", "x", "/", "b">>,
   <<"/", "a", "/", "gemdrive", "/", "images", "/", "2">>,
   <<"/", "a", "/", "gemdrive", "/", "images">>,
   <<"/", "a", "/", "gemdrive", "/", "other">>,
   <<"gemdrive", "/", "meta.json">>}

Numbers == {<<>>, <<"2">>, <<"-", "1">>, <<"x">>}

Flags == {"", "true", "false"}

Framings ==
  {[framing |-> "none", declared |-> 0], [framing |-> "chunked", declared |-> 0],
   [framing |-> "length", declared |-> 0], [framing |-> "length", declared |-> 3]}

RangeHeaders ==
  {<<>>, <<"bytes", "=", "1", "-", "2">>, <<"bytes", "=", "1", "-">>,
   <<"bytes", "=", "-", "2">>, <<"bytes", "=", "x", "-", "2">>, <<"bytes">>}

\* The shapes of request, before the token is attached.
Shapes ==
  {[BaseRequest EXCEPT !.method = m, !.path = File] : m \in {"OPTIONS", "POST"}}
  \cup {[BaseRequest EXCEPT !.method = "HEAD", !.path = p] : p \in DirectPaths}
  \cup {[BaseRequest EXCEPT !.method = "GET", !.path = p, !.range = rg] :
          p \in DirectPaths, rg \in RangeHeaders}
  \cup {[BaseRequest EXCEPT !.method = "GET", !.path = File, !.download = "true",
                            !.mapRoot = <<"/", "site">>]}
  \cup {[BaseRequest EXCEPT !.method = "PUT", !.path = p, !.recursive = f,
                            !.overwrite = g, !.framing = fr.framing,
                            !.declared = fr.declared] :
          p \in {File, Directory}, f \in Flags, g \in Flags, fr \in Framings}
  \cup {[BaseRequest EXCEPT !.method = "PATCH", !.path = File, !.offset = n,
                            !.framing = fr.framing, !.declared = fr.declared] :
          n \in Numbers, fr \in Framings}
  \cup {[BaseRequest EXCEPT !.method = "DELETE", !.path = p, !.recursive = f] :
          p \in {File, Directory}, f \in Flags}
  \cup {[BaseRequest EXCEPT !.method = m, !.path = p] :
          m \in {"GET", "OPTIONS"}, p \in GemPaths}
  \cup {[BaseRequest EXCEPT !.method = "GET", !.path = MetaPath, !.depth = n] :
          n \in Numbers}
  \cup {[BaseRequest EXCEPT !.method = "GET", !.path = MetaPath,
                            !.mapRoot = <<"/", "site">>]}
  \cup {[BaseRequest EXCEPT !.method = "POST",
                            !.path = <<"/", "a", "/", "gemdrive", "/", "authorize">>,
                            !.id = ic[1], !.code = ic[2], !.payload = pl] :
          ic \in {<<"", "">>, <<"id", "">>, <<"id", "code">>},
          pl \in {"key", "unreadable", "not json"}}

\* How a request carries its token.
Carriers ==
  {[accessToken |-> q, authorization |-> h, cookie |-> ck] :
     q \in {<<>>, TokRead},
     h \in {<<>>, <<"Bearer", " ">> \o TokWrite, <<"Bearer">>},
     ck \in {NoCookie, Cookie(TokWrite)}}

Requests ==
  {[s EXCEPT !.accessToken = t.accessToken, !.authorization = t.authorization,
             !.cookie = t.cookie] : s \in Shapes, t \in Carriers}

\* ------------------------------------------------------------------- state

VARIABLES
  pc,        \* "idle", "received" (a request is with the mux) or "done"
  req,       \* the request being handled
  backend,   \* which optional interfaces s.backend implements
  handler,   \* the handler the mux dispatched to
  status,    \* the response: status code (0: none sent), headers, body
  header,
  body,
  log,       \* the calls made on the Auth engine, the backend and the writer
  returned,  \* what the backend (or handshake) call of this request returned
  opened,    \* streams obtained from the backend
  closed,    \* streams closed
  panicked,  \* the handler goroutine panicked
  runPc,     \* Run: "serving" (in the select), "stopping" (in Shutdown), "returned"
  runErr,    \* what Run returned
  ctxDone,   \* the context passed to Run is cancelled
  listener,  \* httpServer's listener: "open" or "closed"
  servePc,   \* the goroutine of ListenAndServe: "serving", "sending", "exited"
  conns,     \* each connection: "none", "idle", "active" (a handler runs), "closed"
  loginHtml, \* s.loginHtml: "nil" or "page"
  hpc,       \* each request goroutine: "new", "loading", "serving", "done"
  wrote,     \* the goroutines in flight that have written a field of Server
  readers,   \* the goroutines in flight that have read s.loginHtml
  sent       \* what each goroutine's sendLoginPage wrote as the body

\* The state of the request in hand.
reqVars ==
  <<pc, req, backend, handler, status, header, body, log, returned, opened, closed,
    panicked>>

\* The state of Run and of httpServer.
runVars == <<runPc, runErr, ctxDone, listener, servePc, conns>>

\* The Server field the request goroutines share, and those goroutines.
fieldVars == <<loginHtml, hpc, wrote, readers, sent>>

vars == <<reqVars, runVars, fieldVars>>

Handlers == 1..MaxHandlers

Conns == 1..MaxConns

Init ==
  /\ pc = "idle"
  /\ req = BaseRequest
  /\ backend \in [writable : BOOLEAN, images : BOOLEAN]
  /\ handler = "none"
  /\ status = 0
  /\ header = <<>>
  /\ body = <<>>
  /\ log = <<>>
  /\ returned = NoCall
  /\ opened = 0
  /\ closed = 0
  /\ panicked = FALSE
  /\ runPc = "serving"
  /\ runErr = "none"
  /\ ctxDone = FALSE
  /\ listener = "open"
  /\ servePc = "serving"
  /\ conns = [c \in Conns |-> "none"]
  /\ loginHtml = "nil"
  /\ hpc = [h \in Handlers |-> "new"]
  /\ wrote = {}
  /\ readers = {}
  /\ sent = [h \in Handlers |-> "none"]

\* The handler returned c: net/http sends status 200 if none was written; a
\* panic aborts the response.
Return(name, c) ==
  /\ pc' = "done"
  /\ handler' = name
  /\ status' = IF c.status = 0 /\ ~c.panic THEN 200 ELSE c.status
  /\ header' = c.header
  /\ body' = c.body
  /\ log' = c.log
  /\ opened' = c.opened
  /\ closed' = c.closed
  /\ panicked' = c.panic
  /\ returned' = c.returned
  /\ UNCHANGED <<req, backend, runVars, fieldVars>>

\* A request reaches the mux.
Arrive(requests) ==
  /\ pc = "idle"
  /\ req' \in requests
  /\ pc' = "received"
  /\ UNCHANGED <<backend, handler, status, header, body, log, returned, opened, closed,
               panicked, runVars, fieldVars>>

\* rice.FindBox or box.Bytes fails: src/server.go:63-75
AssetFailure ==
  /\ pc = "received"
  /\ Return("box", Write(WriteHeader(NewCtx, 500), "box error"))

\* src/server.go:77-84
Options ==
  /\ pc = "received"
  /\ req.method = "OPTIONS"
  /\ Return("options", Cors(NewCtx))

\* The direct-mode dispatch: src/server.go:108-122
Direct(method) ==
  /\ pc = "received"
  /\ req.method = method
  /\ ~IsGemDriveRequest(ReqPath(req))

DoHead ==
  /\ Direct("HEAD")
  /\ \E out \in ListOutcomes :
       Return("handleHead", HandleHead(Prelude(NewCtx), req, ReqPath(req), out))

DoGet ==
  /\ Direct("GET")
  /\ \E out \in ReadOutcomes, copyOk \in BOOLEAN :
       Return("serveItem", ServeItem(Prelude(NewCtx), req, ReqPath(req), out, copyOk))

DoPut ==
  /\ Direct("PUT")
  /\ \E out \in CallOutcomes :
       Return("handlePut",
              HandlePut(Prelude(NewCtx), req, ReqPath(req), backend.writable, out))

DoPatch ==
  /\ Direct("PATCH")
  /\ \E out \in CallOutcomes :
       Return("handlePatch",
              HandlePatch(Prelude(NewCtx), req, ReqPath(req), backend.writable, out))

DoDelete ==
  /\ Direct("DELETE")
  /\ \E out \in CallOutcomes :
       Return("handleDelete",
              HandleDelete(Prelude(NewCtx), req, ReqPath(req), backend.writable, out))

\* A method the switch has no case for.
OtherMethod ==
  /\ pc = "received"
  /\ req.method \notin {"OPTIONS", "HEAD", "GET", "PUT", "PATCH", "DELETE"}
  /\ ~IsGemDriveRequest(ReqPath(req))
  /\ Return("none", Prelude(NewCtx))

\* src/server.go:106-107
GemDrive ==
  /\ pc = "received"
  /\ req.method # "OPTIONS"
  /\ IsGemDriveRequest(ReqPath(req))
  /\ \E out \in ListOutcomes \cup CallOutcomes, copyOk \in BOOLEAN :
       Return("handleGemDriveRequest",
              HandleGemDriveRequest(Prelude(NewCtx), req, ReqPath(req),
                                    backend.images, out, copyOk))

\* The response is sent; the server waits for the next request.
Finish ==
  /\ pc = "done"
  /\ pc' = "idle"
  /\ req' = BaseRequest
  /\ handler' = "none"
  /\ status' = 0
  /\ header' = <<>>
  /\ body' = <<>>
  /\ log' = <<>>
  /\ returned' = NoCall
  /\ opened' = 0
  /\ closed' = 0
  /\ panicked' = FALSE
  /\ UNCHANGED <<backend, runVars, fieldVars>>

Handle ==
  \/ AssetFailure
  \/ Options
  \/ DoHead
  \/ DoGet
  \/ DoPut
  \/ DoPatch
  \/ DoDelete
  \/ OtherMethod
  \/ GemDrive

Next == Arrive(Requests) \/ Handle \/ Finish

Spec == Init /\ [][Next]_vars

\* -------------------------------------------------- token extraction runs

AuthAtoms == {"Bearer", " ", "\t", "w"}

\* GET and DELETE of a file, with every combination of token carriers.
TokenRequests ==
  {[BaseRequest EXCEPT !.method = m, !.path = File, !.accessToken = q,
                       !.authorization = h, !.cookie = ck] :
     m \in {"GET", "DELETE"},
     q \in {<<>>, TokRead, <<"x">>},
     h \in SeqsUpTo(AuthAtoms, MaxAuthLen),
     ck \in {NoCookie, Cookie(<<>>), Cookie(TokWrite)}}

\* The server of these runs has a writable backend.
InitToken == Init /\ backend = [writable |-> TRUE, images |-> FALSE]

NextToken == Arrive(TokenRequests) \/ DoGet \/ DoDelete \/ Finish

SpecToken == InitToken /\ [][NextToken]_vars

\* ---------------------------------------------------------- range runs

RangeAtoms == {"bytes", "=", "-", "1", "3", "5"}

\* An authorized GET of a file, with every Range header value over
\* RangeAtoms (the empty one: no Range header).
RangeRequests ==
  {[BaseRequest EXCEPT !.method = "GET", !.path = File, !.cookie = Cookie(TokRead),
                       !.range = h] :
     h \in SeqsUpTo(RangeAtoms, MaxRangeLen)}

\* The server of these runs has a backend with both optional interfaces.
InitRange == Init /\ backend = [writable |-> TRUE, images |-> TRUE]

NextRange == Arrive(RangeRequests) \/ DoGet \/ Finish

SpecRange == InitRange /\ [][NextRange]_vars

\* ------------------------------------------------------ Run and Shutdown
\* src/server.go:126-147.  Run starts ListenAndServe in a goroutine that
\* sends its result on the unbuffered channel serverDone, and selects on
\* serverDone and ctx.Done(); on ctx.Done() it calls httpServer.Shutdown(ctx)
\* with the context that is already cancelled.

\* httpServer is shutting down: Shutdown was called.
InShutdown ==
  \/ runPc = "stopping"
  \/ runPc = "returned" /\ runErr # "listen error"

\* The listener accepts connection c.
Accept(c) ==
  /\ servePc = "serving"
  /\ listener = "open"
  /\ conns[c] = "none"
  /\ conns' = [conns EXCEPT ![c] = "idle"]
  /\ UNCHANGED <<reqVars, fieldVars, runPc, runErr, ctxDone, listener, servePc>>

\* A request arrives on connection c and the mux closure starts.
BeginRequest(c) ==
  /\ conns[c] = "idle"
  /\ conns' = [conns EXCEPT ![c] = "active"]
  /\ UNCHANGED <<reqVars, fieldVars, runPc, runErr, ctxDone, listener, servePc>>

\* The handler of connection c returns; a server that is shutting down
\* closes the connection instead of keeping it alive.
EndRequest(c) ==
  /\ conns[c] = "active"
  /\ conns' = [conns EXCEPT ![c] = IF InShutdown THEN "closed" ELSE "idle"]
  /\ UNCHANGED <<reqVars, fieldVars, runPc, runErr, ctxDone, listener, servePc>>

\* The caller of Run cancels ctx.
Cancel ==
  /\ ~ctxDone
  /\ ctxDone' = TRUE
  /\ UNCHANGED <<reqVars, fieldVars, runPc, runErr, listener, servePc, conns>>

\* httpServer.ListenAndServe() returns an error of its own (the port cannot
\* be bound, Accept fails): src/server.go:134
ListenFails ==
  /\ servePc = "serving"
  /\ listener = "open"
  /\ ~InShutdown
  /\ listener' = "closed"
  /\ servePc' = "sending"
  /\ UNCHANGED <<reqVars, fieldVars, runPc, runErr, ctxDone, conns>>

\* httpServer.ListenAndServe() returns ErrServerClosed once Shutdown was
\* called: src/server.go:134
ServeStops ==
  /\ servePc = "serving"
  /\ InShutdown
  /\ servePc' = "sending"
  /\ UNCHANGED <<reqVars, fieldVars, runPc, runErr, ctxDone, listener, conns>>

\* case err := <-serverDone: the send of the goroutine and the receive of
\* Run meet; Run returns err.  src/server.go:135, 139-140
RunReceives ==
  /\ runPc = "serving"
  /\ servePc = "sending"
  /\ servePc' = "exited"
  /\ runPc' = "returned"
  /\ runErr' = "listen error"
  /\ UNCHANGED <<reqVars, fieldVars, ctxDone, listener, conns>>

\* case <-ctx.Done(): Run calls httpServer.Shutdown(ctx), which first closes
\* the listener.  src/server.go:141-142
ShutdownBegins ==
  /\ runPc = "serving"
  /\ ctxDone
  /\ runPc' = "stopping"
  /\ listener' = "closed"
  /\ UNCHANGED <<reqVars, fieldVars, runErr, ctxDone, servePc, conns>>

\* Shutdown then closes the idle connections and returns nil if no
\* connection is left active; otherwise it selects on ctx.Done() and its
\* poll timer, and ctx is done: it returns ctx.Err().  Run returns that.
\* src/server.go:142-143
ShutdownReturns ==
  /\ runPc = "stopping"
  /\ conns' = [c \in Conns |-> IF conns[c] = "idle" THEN "closed" ELSE conns[c]]
  /\ runErr' = IF \E c \in Conns : conns[c] = "active" THEN "context canceled" ELSE "nil"
  /\ runPc' = "returned"
  /\ UNCHANGED <<reqVars, fieldVars, ctxDone, listener, servePc>>

InitRun == Init /\ backend = [writable |-> TRUE, images |-> TRUE]

NextRun ==
  \/ \E c \in Conns : Accept(c)
  \/ \E c \in Conns : BeginRequest(c)
  \/ \E c \in Conns : EndRequest(c)
  \/ Cancel
  \/ ListenFails
  \/ ServeStops
  \/ RunReceives
  \/ ShutdownBegins
  \/ ShutdownReturns

SpecRun == InitRun /\ [][NextRun]_vars

\* The Go scheduler runs every goroutine that can take a step: Run in its
\* select and in Shutdown, the goroutine of ListenAndServe, and the handlers.
\* Nothing obliges the caller to cancel ctx, a client to connect or the
\* listener to fail.
FairRun ==
  /\ WF_vars(ServeStops)
  /\ WF_vars(RunReceives)
  /\ WF_vars(ShutdownBegins)
  /\ WF_vars(ShutdownReturns)
  /\ \A c \in Conns : WF_vars(EndRequest(c))

SpecRunFair == SpecRun /\ FairRun

\* --------------------------------------------- concurrent request goroutines
\* net/http runs the mux closure in one goroutine per connection; the
\* goroutines share the *Server s and nothing orders their accesses to it.

\* rice.FindBox("files"): src/server.go:63-68
FindBox(h) ==
  /\ hpc[h] = "new"
  /\ \E found \in BOOLEAN : hpc' = [hpc EXCEPT ![h] = IF found THEN "loading" ELSE "done"]
  /\ UNCHANGED <<reqVars, runVars, loginHtml, wrote, readers, sent>>

\* s.loginHtml, err = box.Bytes("login.html"): the field is assigned on every
\* request, nil when the load fails.  src/server.go:70-75
LoadLoginHtml(h) ==
  /\ hpc[h] = "loading"
  /\ \E loaded \in BOOLEAN :
       /\ loginHtml' = IF loaded THEN "page" ELSE "nil"
       /\ hpc' = [hpc EXCEPT ![h] = IF loaded THEN "serving" ELSE "done"]
  /\ wrote' = wrote \cup {h}
  /\ UNCHANGED <<reqVars, runVars, readers, sent>>

\* The goroutines other than h that are between their load of the login page
\* and their return: their write of s.loginHtml is not ordered with what h
\* does.
Unordered(h) == {g \in Handlers \ {h} : g \in wrote \/ hpc[g] = "loading"}

\* w.Write(s.loginHtml) in sendLoginPage: src/server.go:320.  A read that
\* races with a write gives either value.
SendLoginHtml(h) ==
  /\ hpc[h] = "serving"
  /\ \E v \in {loginHtml} \cup (IF Unordered(h) # {} THEN {"nil", "page"} ELSE {}) :
       sent' = [sent EXCEPT ![h] = v]
  /\ readers' = readers \cup {h}
  /\ hpc' = [hpc EXCEPT ![h] = "done"]
  /\ UNCHANGED <<reqVars, runVars, loginHtml, wrote>>

\* Every other way through the handlers: s.config, s.backend and s.auth are
\* read, no field is written.  src/server.go:77-124
ServeOther(h) ==
  /\ hpc[h] = "serving"
  /\ hpc' = [hpc EXCEPT ![h] = "done"]
  /\ UNCHANGED <<reqVars, runVars, loginHtml, wrote, readers, sent>>

\* The closure returns; the goroutine serves the next request.
HandlerReturns(h) ==
  /\ hpc[h] = "done"
  /\ hpc' = [hpc EXCEPT ![h] = "new"]
  /\ wrote' = wrote \ {h}
  /\ readers' = readers \ {h}
  /\ sent' = [sent EXCEPT ![h] = "none"]
  /\ UNCHANGED <<reqVars, runVars, loginHtml>>

InitShared == Init /\ backend = [writable |-> TRUE, images |-> TRUE]

NextShared ==
  \E h \in Handlers :
    \/ FindBox(h)
    \/ LoadLoginHtml(h)
    \/ SendLoginHtml(h)
    \/ ServeOther(h)
    \/ HandlerReturns(h)

SpecShared == InitShared /\ [][NextShared]_vars

\* ------------------------------------------------------------ observations

BackendOps == {"List", "Read", "Write", "MakeDir", "Delete", "GetImage"}

\* The events of the log with operation op.
Calls(op) == SelectSeq(log, LAMBDA e : e.op = op)

NoBackendCall == \A i \in 1..Len(log) : log[i].op \notin BackendOps

\* The capability check of this request was made and returned false.
Denied ==
  \E i \in 1..Len(log) :
    \/ log[i].op = "CanRead" /\ ~CanRead(log[i].args[1], log[i].args[2])
    \/ log[i].op = "CanWrite" /\ ~CanWrite(log[i].args[1], log[i].args[2])

\* The capability check of this request was made and returned true.
Granted ==
  \E i \in 1..Len(log) :
    \/ log[i].op = "CanRead" /\ CanRead(log[i].args[1], log[i].args[2])
    \/ log[i].op = "CanWrite" /\ CanWrite(log[i].args[1], log[i].args[2])

\* The response of sendLoginPage, whatever the request.
LoginHeader ==
  [k \in {"Access-Control-Allow-Origin", "Access-Control-Allow-Methods",
          "Access-Control-Allow-Headers", "Content-Type", "WWW-Authenticate"} |->
     CASE k = "Content-Type" -> "text/html; charset=utf-8"
       [] k = "WWW-Authenticate" -> "emauth realm=\"Everything\", charset=\"UTF-8\""
       [] OTHER -> "*"]

EndsWith(p, suffix) ==
  Len(p) >= Len(suffix) /\ SubSeq(p, Len(p) - Len(suffix) + 1, Len(p)) = suffix

\* The request is for the authorize operation of the meta-protocol.
IsAuthorizeRequest == EndsWith(ReqPath(req), Marker \o <<"authorize">>)

\* --------------------------------------------------------------------- C1
\* C1: a request whose capability check (CanRead for HEAD, GET, meta.json and
\* images; CanWrite for PUT, PATCH and DELETE; on the request path, or on the
\* text before the marker in meta-protocol mode) returns false is answered
\* 403 with the login page, always the same response, and no backend
\* operation is invoked and no stream obtained in that request.
C1_UnauthorizedShortCircuits ==
  pc = "done" =>
    /\ (handler \in {"handleHead", "serveItem"} /\ ~panicked) =>
         /\ log # <<>>
         /\ log[1].op = "CanRead"
         /\ log[1].args[2] = ReqPath(req)
    /\ (handler \in {"handlePut", "handlePatch", "handleDelete"} /\ ~panicked) =>
         /\ log # <<>>
         /\ log[1].op = "CanWrite"
         /\ log[1].args[2] = ReqPath(req)
    /\ (handler = "handleGemDriveRequest" /\ ~panicked /\ ~IsAuthorizeRequest) =>
         /\ log # <<>>
         /\ log[1].op = "CanRead"
         /\ LET gemPath == log[1].args[2]
            IN  SubSeq(ReqPath(req), 1, Len(gemPath) + 2) = gemPath \o Marker
    /\ Denied =>
         /\ status = 403
         /\ body = <<"loginHtml">>
         /\ header = LoginHeader
         /\ NoBackendCall
         /\ returned = NoCall
         /\ opened = 0

\* An unauthorized DELETE, and an unauthorized meta.json, were answered.
C1_Witness ==
  /\ pc = "done"
  /\ Denied
  /\ handler \in {"handleDelete", "handleGemDriveRequest"}
  /\ status = 403

\* --------------------------------------------------------------------- C2
Whitespace == {" ", "\t"}

RECURSIVE Fields(_)
\* The whitespace-delimited fields of s.
Fields(s) ==
  IF s = <<>> THEN <<>>
  ELSE IF Head(s) \in Whitespace THEN Fields(Tail(s))
  ELSE LET stops == {i \in 1..Len(s) : s[i] \in Whitespace}
           n == IF stops = {} THEN Len(s) + 1
                ELSE CHOOSE i \in stops : \A j \in stops : i <= j
       IN  <<SubSeq(s, 1, n - 1)>> \o Fields(SubSeq(s, n, Len(s)))

\* The handler's capability check was made with token t.
CheckedWith(t) ==
  /\ ~panicked
  /\ log # <<>>
  /\ log[1].op \in {"CanRead", "CanWrite"}
  /\ log[1].args[1] = t

\* C2: the token passed to CanRead/CanWrite is the access_token query
\* parameter when non-empty; otherwise the second whitespace-delimited field
\* of the Authorization header when the header is present; otherwise the
\* access_token cookie when present; otherwise the empty token.
C2_TokenPriority ==
  (pc = "done" /\ handler \in {"serveItem", "handleDelete"}) =>
    IF req.accessToken # <<>> THEN CheckedWith(req.accessToken)
    ELSE IF req.authorization # <<>>
      THEN Len(Fields(req.authorization)) >= 2 =>
             CheckedWith(Fields(req.authorization)[2])
    ELSE IF req.cookie.present THEN CheckedWith(req.cookie.value)
    ELSE CheckedWith(<<>>)

\* --------------------------------------------------------------------- C3
\* A bound of a Range header: -1 stands for an omitted bound.
Bounds == {0 - 1} \cup (0..MAX_INT64)

BoundText(n) == IF n < 0 THEN <<>> ELSE FormatInt(n)

\* Range: bytes=<start>-<end>
BytesRange(start, end) == <<"bytes", "=">> \o BoundText(start) \o <<"-">> \o BoundText(end)

\* A file GET whose Read succeeded.
FileReadSucceeded ==
  /\ pc = "done"
  /\ handler = "serveItem"
  /\ ~HasSlashSuffix(ReqPath(req))
  /\ returned.kind = "ok"

ReadCalledWith(offset, length) ==
  Calls("Read") = <<Event("Read", <<ReqPath(req), offset, length>>)>>

\* The response to a range request for [first, last] of a file of size n.
PartialContent(first, last, n) ==
  /\ status = 206
  /\ "Content-Range" \in DOMAIN header
  /\ header["Content-Range"] = <<first, last, n>>
  /\ header["Content-Length"] = last - first + 1

WholeContent ==
  (FileReadSucceeded /\ req.range = <<>>) =>
    /\ ReadCalledWith(0, 0)
    /\ status = 200
    /\ header["Content-Length"] = returned.size

\* C3 as claimed: with Range: bytes=<start>-<end>, Read is called with offset
\* start (0 when omitted) and length end-start+1 (0 when end is omitted) and
\* the response is 206, Content-Range start-e/N with e = end, or N-1 when end
\* is omitted, Content-Length e-start+1; without a Range header Read is
\* called with (0, 0) and the response is 200 with Content-Length N.
C3_RangeAsClaimed ==
  /\ WholeContent
  /\ FileReadSucceeded =>
       \A start, end \in Bounds :
         req.range = BytesRange(start, end) =>
           LET first == IF start < 0 THEN 0 ELSE start
               last  == IF end < 0 THEN returned.size - 1 ELSE end
           IN  /\ ReadCalledWith(first, IF end < 0 THEN 0 ELSE end - first + 1)
               /\ PartialContent(first, last, returned.size)

\* C3 amended: the same, where an end equal to the largest 64-bit integer is
\* treated as an omitted end (length 0 passed to Read, e = N-1).
C3_RangeAmended ==
  /\ WholeContent
  /\ FileReadSucceeded =>
       \A start, end \in Bounds :
         req.range = BytesRange(start, end) =>
           LET open  == end < 0 \/ end = MAX_INT64
               first == IF start < 0 THEN 0 ELSE start
               last  == IF open THEN returned.size - 1 ELSE end
           IN  /\ ReadCalledWith(first, IF open THEN 0 ELSE end - first + 1)
               /\ PartialContent(first, last, returned.size)

\* A range request with an explicit end equal to the largest integer was
\* answered from a file of size 3.
C3_Witness ==
  /\ FileReadSucceeded
  /\ req.range = BytesRange(0 - 1, MAX_INT64)
  /\ returned.size = 3
  /\ status = 206
  /\ header["Content-Range"] = <<0, 2, 3>>

\* --------------------------------------------------------------------- C4
Positions(s, a) == {i \in 1..Len(s) : s[i] = a}

RECURSIVE StripZeros(_)
StripZeros(ds) ==
  IF Len(ds) > 1 /\ Head(ds) = "0" THEN StripZeros(Tail(ds)) ELSE ds

\* b is a decimal integer that fits the integer width: digits after an
\* optional "+" (a "-" cannot occur inside a bound).
IsDecimalInteger(b) ==
  LET ds == IF b # <<>> /\ Head(b) = "+" THEN Tail(b) ELSE b
  IN  /\ ds # <<>>
      /\ \A i \in 1..Len(ds) : ds[i] \in Digits
      /\ \E n \in 0..MAX_INT64 : FormatInt(n) = StripZeros(ds)

\* Not exactly one "=", not exactly one "-" after it, or a non-empty bound
\* that is no decimal integer.
Malformed(h) ==
  LET eqs == Positions(h, "=")
  IN  IF Cardinality(eqs) # 1 THEN TRUE
      ELSE LET rng    == SubSeq(h, (CHOOSE i \in eqs : TRUE) + 1, Len(h))
               dashes == Positions(rng, "-")
           IN  IF Cardinality(dashes) # 1 THEN TRUE
               ELSE LET j  == CHOOSE i \in dashes : TRUE
                        lo == SubSeq(rng, 1, j - 1)
                        hi == SubSeq(rng, j + 1, Len(rng))
                    IN  \/ lo # <<>> /\ ~IsDecimalInteger(lo)
                        \/ hi # <<>> /\ ~IsDecimalInteger(hi)

\* An authorized GET of a file with a malformed Range header.
MalformedRangeGet ==
  /\ pc = "done"
  /\ handler = "serveItem"
  /\ Granted
  /\ ~HasSlashSuffix(ReqPath(req))
  /\ req.range # <<>>
  /\ Malformed(req.range)

C5_BackendErrorVerbatim ==
  (/\ pc = "done"
   /\ returned.kind = "error"
   /\ \E i \in 1..Len(log) : log[i].op \in {"List", "Read", "Write", "MakeDir", "Delete"})
    => (status = returned.code /\ body = <<returned.msg>>)

\* --------------------------------------------------------------------- C6
\* C6: at the end of every request the number of streams obtained from the
\* backend equals the number of streams closed.
C6_StreamsClosed == pc = "done" => opened = closed

\* --------------------------------------------------------------------- C7
\* An authorized PUT on a writable backend has been handled.
AuthorizedPut ==
  /\ pc = "done"
  /\ handler = "handlePut"
  /\ Granted
  /\ backend.writable

\* C7: an authorized PUT on a writable backend calls MakeDir(path, recursive
\* = "true") and no Write when the path ends in "/"; otherwise answers 400
\* without any backend call when the declared content length is below 1;
\* otherwise calls Write exactly once with offset 0, the declared length,
\* overwrite iff the flag is "true", and truncate.
C7_PutTranslation ==
  AuthorizedPut =>
    IF HasSlashSuffix(ReqPath(req))
      THEN /\ Calls("MakeDir") =
                <<Event("MakeDir", <<ReqPath(req), req.recursive = "true">>)>>
           /\ Calls("Write") = <<>>
    ELSE IF ContentLength(req) < 1
      THEN status = 400 /\ NoBackendCall
    ELSE /\ Calls("Write") =
              <<Event("Write", <<ReqPath(req), 0, ContentLength(req),
                                 req.overwrite = "true", TRUE>>)>>
         /\ Calls("MakeDir") = <<>>

\* A PUT with overwrite=false reached Write without overwrite.
C7_Witness ==
  /\ AuthorizedPut
  /\ req.overwrite = "false"
  /\ Len(Calls("Write")) = 1
  /\ Calls("Write")[1].args[4] = FALSE
  /\ Calls("Write")[1].args[3] = 3

\* --------------------------------------------------------------------- C8
\* C8: an authorized PATCH on a writable backend answers 400 without calling
\* Write when offset is present and not an integer >= 0 or when the
\* Content-Length header is missing; otherwise Write is called with the
\* offset (0 when absent), the Content-Length, overwrite and no truncate;
\* every Write has offset >= 0.
C8_PatchTranslation ==
  (pc = "done" /\ handler = "handlePatch" /\ Granted /\ backend.writable) =>
    /\ ((req.offset # <<>> /\ ~IsDecimalInteger(req.offset)) \/ req.framing # "length")
         => (status = 400 /\ Calls("Write") = <<>>)
    /\ \A i \in 1..Len(Calls("Write")) :
         LET args == Calls("Write")[i].args
         IN  /\ args[2] >= 0
             /\ req.offset = <<>> => args[2] = 0
             /\ args[3] = req.declared
             /\ args[4] = TRUE
             /\ args[5] = FALSE

\* --------------------------------------------------------------------- C9
\* C9: an authorized meta.json request calls List on the logical target path
\* with depth 1 when the parameter is absent; answers 400 without calling
\* List when the parameter is present and is no non-negative integer; every
\* List it issues has depth >= 0.
C9_MetaDepth ==
  (/\ pc = "done"
   /\ handler = "handleGemDriveRequest"
   /\ Granted
   /\ EndsWith(ReqPath(req), Marker \o <<"meta.json">>)) =>
    /\ (req.depth # <<>> /\ ~IsDecimalInteger(req.depth))
         => (status = 400 /\ Calls("List") = <<>>)
    /\ req.depth = <<>> => (Len(Calls("List")) = 1 /\ Calls("List")[1].args[2] = 1)
    /\ \A i \in 1..Len(Calls("List")) :
         /\ Calls("List")[i].args[2] >= 0
         /\ Calls("List")[i].args[1] \o Marker \o <<"meta.json">> = ReqPath(req)

\* -------------------------------------------------------------------- C10
\* The path has a segment named exactly "gemdrive" that is followed by "/".
ContainsMarkerSegment(p) ==
  \E i \in 1..(Len(p) - 1) :
    /\ p[i] = "gemdrive"
    /\ p[i + 1] = "/"
    /\ i = 1 \/ p[i - 1] = "/"

DirectHandler(method) ==
  CASE method = "HEAD" -> "handleHead"
    [] method = "GET" -> "serveItem"
    [] method = "PUT" -> "handlePut"
    [] method = "PATCH" -> "handlePatch"
    [] method = "DELETE" -> "handleDelete"
    [] OTHER -> "none"

\* C10: a request is handled in meta-protocol mode if and only if its
\* (host-remapped) path contains the marker segment gemdrive/; every other
\* request is handled in direct mode by its method.
C10_ModeSelection ==
  (pc = "done" /\ handler \notin {"box", "options"}) =>
    IF ContainsMarkerSegment(ReqPath(req))
      THEN handler = "handleGemDriveRequest"
    ELSE handler = DirectHandler(req.method)

\* -------------------------------------------------------------------- C11

\* The authorize operation ran: the request was dispatched to
\* handleGemDriveRequest with "authorize" after the marker, and token
\* extraction completed.
AuthorizeRan ==
  /\ pc = "done"
  /\ handler = "handleGemDriveRequest"
  /\ IsAuthorizeRequest
  /\ ~panicked

\* Both query parameters id and code are non-empty.
Handshake == req.id # "" /\ req.code # ""

\* Set-Cookie: access_token=<token>; HttpOnly; Max-Age=31536000; Path=/;
\* SameSite=Lax
SessionCookie ==
  [name |-> "access_token", value |-> "token", httpOnly |-> TRUE,
   maxAge |-> 31536000, path |-> "/", sameSite |-> "Lax"]

\* The request body can be read and decodes as a credential.
Decodable == req.payload \notin {"unreadable", "not json"}

\* No capability check and no backend call; with id and code, CompleteAuth
\* once with those arguments and no Authorize, the cookie and the token on
\* success, an error status and no cookie on failure.
AuthorizeCommon ==
  /\ Calls("CanRead") = <<>>
  /\ Calls("CanWrite") = <<>>
  /\ NoBackendCall
  /\ Handshake =>
       /\ Calls("CompleteAuth") = <<Event("CompleteAuth", <<req.id, req.code>>)>>
       /\ Calls("Authorize") = <<>>
       /\ returned.kind = "ok" =>
            /\ status = 200
            /\ "Set-Cookie" \in DOMAIN header
            /\ header["Set-Cookie"] = SessionCookie
            /\ body = <<"token">>
       /\ returned.kind # "ok" =>
            /\ status >= 400
            /\ "Set-Cookie" \notin DOMAIN header
  /\ ~Handshake => Calls("CompleteAuth") = <<>>

\* C11 as stated: the authorize operation makes no capability check and no
\* backend call; with id and code both non-empty it calls CompleteAuth(id,
\* code) exactly once and not Authorize, sets the access_token cookie and
\* writes the token on success, answers an error status without a cookie on
\* failure; otherwise it calls Authorize exactly once (whatever the body),
\* never CompleteAuth, and returns the authorization id when Authorize
\* succeeds.
C11_AuthorizeAsClaimed ==
  AuthorizeRan =>
    /\ AuthorizeCommon
    /\ ~Handshake =>
         /\ Len(Calls("Authorize")) = 1
         /\ returned.kind = "ok" => body = <<"authId">>

\* C11, amended: as above, but without id and code Authorize is called
\* exactly once, with the decoded credential, only when the body can be read
\* and decoded; an unreadable or undecodable body is answered 400 with
\* neither Authorize nor CompleteAuth called; a failing Authorize is answered
\* 400.
C11_AuthorizeAmended ==
  AuthorizeRan =>
    /\ AuthorizeCommon
    /\ ~Handshake /\ Decodable =>
         /\ Calls("Authorize") = <<Event("Authorize", <<req.payload>>)>>
         /\ returned.kind = "ok" => status = 200 /\ body = <<"authId">>
         /\ returned.kind # "ok" => status = 400
    /\ ~Handshake /\ ~Decodable =>
         /\ Calls("Authorize") = <<>>
         /\ status = 400

\* The handshake completed: the cookie is set and the token is the body.
C11_Witness ==
  /\ AuthorizeRan
  /\ Handshake
  /\ returned.kind = "ok"
  /\ "Set-Cookie" \in DOMAIN header
  /\ body = <<"token">>

\* -------------------------------------------------------------------- C12

\* An authorized HEAD was handled.
HeadServed ==
  /\ pc = "done"
  /\ handler = "handleHead"
  /\ Granted
  /\ ~panicked

\* The parent directory of p, with its trailing slash: p without its last
\* name.  The root has none.
ParentOf(p) ==
  LET q == TrimSlashes(p)
  IN  SubSeq(q, 1, LastSlash(q))

\* The last name of p.
LastName(p) ==
  LET q == TrimSlashes(p)
  IN  SubSeq(q, LastSlash(q) + 1, Len(q))

\* C12: an authorized HEAD of P, whatever P (a path ending in "/" and the
\* root included), calls List once, at depth 1, on the parent directory of P
\* (compared up to repeated slashes) and never on P itself; when the listing
\* has a child with the last name of P the response carries that child's Size
\* as Content-Length, and when it has none the response is 404.
C12_HeadListsParent ==
  HeadServed =>
    LET P     == ReqPath(req)
        calls == Calls("List")
        found == {ch \in returned.children : ch[1] = LastName(P)}
    IN  /\ Len(calls) = 1
        /\ calls[1].args[2] = 1
        /\ CollapseSlashes(calls[1].args[1]) = ParentOf(P)
        /\ CollapseSlashes(calls[1].args[1]) # CollapseSlashes(P)
        /\ returned.kind = "ok" /\ found # {} =>
             /\ status = 200
             /\ "Content-Length" \in DOMAIN header
             /\ \E ch \in found : header["Content-Length"] = ch[2]
        /\ returned.kind = "ok" /\ found = {} => status = 404

\* -------------------------------------------------------------------- C13

\* A PUT, PATCH or DELETE was handled by its direct-mode handler.
MutationHandled ==
  /\ pc = "done"
  /\ handler \in {"handlePut", "handlePatch", "handleDelete"}
  /\ ~panicked

NoMutationCall ==
  /\ Calls("Write") = <<>>
  /\ Calls("MakeDir") = <<>>
  /\ Calls("Delete") = <<>>

\* C13: a PUT, PATCH or DELETE whose CanWrite check passes, on a backend that
\* is not a WritableBackend, is answered 500 "Backend does not support
\* writing" without any Write, MakeDir or Delete; the capability check comes
\* first, so a caller whose check fails gets 403 and no backend call, whether
\* the backend is writable or not.
C13_UnsupportedWrite ==
  MutationHandled =>
    /\ log # <<>>
    /\ log[1] = Event("CanWrite", <<ExtractToken(req).token, ReqPath(req)>>)
    /\ Granted /\ ~backend.writable =>
         /\ status = 500
         /\ body = <<"Backend does not support writing">>
         /\ NoMutationCall
    /\ Denied =>
         /\ status = 403
         /\ NoBackendCall

\* An authorized DELETE on a backend that does not support writing.
C13_Witness ==
  /\ MutationHandled
  /\ handler = "handleDelete"
  /\ Granted
  /\ ~backend.writable
  /\ status = 500

\* -------------------------------------------------------------------- C14

\* A response was produced (a handler that panicked produces none).
Responded == pc = "done" /\ ~panicked

CorsHeaders ==
  {"Access-Control-Allow-Origin", "Access-Control-Allow-Methods",
   "Access-Control-Allow-Headers"}

HasCors == \A k \in CorsHeaders : k \in DOMAIN header /\ header[k] = "*"

\* C14: every response, error responses included, carries the three CORS
\* headers with value "*"; and the response to an OPTIONS request is produced
\* right after they are set: status 200, no other header, no body, no call on
\* the Auth engine or the backend.
C14_CorsEverywhere ==
  Responded =>
    /\ HasCors
    /\ req.method = "OPTIONS" =>
         /\ handler = "options"
         /\ status = 200
         /\ DOMAIN header = CorsHeaders
         /\ body = <<>>
         /\ log = <<>>

\* -------------------------------------------------------------------- C15

\* Run returned because its context was cancelled.
ReturnedOnCancel == runPc = "returned" /\ runErr # "listen error"

\* C15: once the context passed to Run is cancelled and Run acts on it, no
\* new connection is accepted (the listener is closed), and Run has returned
\* only if no handler is still running: no in-flight request is left running
\* after Run has returned.
C15_GracefulShutdown ==
  /\ InShutdown => listener = "closed"
  /\ ReturnedOnCancel => \A c \in Conns : conns[c] # "active"

\* -------------------------------------------------------------------- C16

\* Two goroutines in flight have accessed the same field of Server, one of
\* them writing it, with nothing ordering the two accesses.
DataRace ==
  \E g, h \in Handlers : g # h /\ g \in wrote /\ h \in wrote \cup readers

\* C16: after NewServer has returned no request handler writes a field of
\* Server, so that no two request goroutines race on one.
C16_NoSharedWrites ==
  /\ wrote = {}
  /\ ~DataRace

\* -------------------------------------------------------------------- C17

\* An authorized GET of a path ending in "/" was handled in direct mode.
DirectoryGet ==
  /\ pc = "done"
  /\ handler = "serveItem"
  /\ Granted
  /\ ~panicked
  /\ HasSlashSuffix(ReqPath(req))

\* C17: an authorized GET of a path ending in "/" calls Read once, on
\* <path>index.html with offset 0 and length 0, and never List; if the Read
\* succeeds the stream is copied to the response; if it fails, whatever the
\* error, the response is 400 and nothing is copied from the backend.
C17_DirectoryGet ==
  DirectoryGet =>
    /\ Calls("Read") = <<Event("Read", <<ReqPath(req) \o <<"index.html">>, 0, 0>>)>>
    /\ Calls("List") = <<>>
    /\ returned.kind = "ok" =>
         /\ status = 200
         /\ Len(Calls("io.Copy")) = 1
         /\ body \in {<<"stream">>, <<"stream (cut short)">>}
    /\ returned.kind # "ok" =>
         /\ status = 400
         /\ Calls("io.Copy") = <<>>
         /\ body = <<"Attempted to read directory">>

\* The directory has no index.html: the backend's 404 is answered 400.
C17_Witness ==
  /\ DirectoryGet
  /\ returned = StructuredError(404, "Not found")
  /\ status = 400

\* -------------------------------------------------------------------- C18

\* An authorized GET was handled in direct mode and reached the backend.
GetServed ==
  /\ pc = "done"
  /\ handler = "serveItem"
  /\ Granted
  /\ ~panicked
  /\ Calls("Read") # <<>>

\* The positions of the log at which op happened.
At(op) == {i \in 1..Len(log) : log[i].op = op}

\* Bytes of the backend's stream went to the response.
Streamed == At("io.Copy") # {}

\* Nothing is written to the response before Read has returned, the copy of
\* the stream starts after it, and a failed Read is followed by no copy.
ReadBeforeBody ==
  /\ \A i \in At("Read"), j \in At("w.Write") \cup At("io.Copy") : i < j
  /\ returned.kind # "ok" => ~Streamed
  /\ returned.kind = "ok" => Streamed

\* The status line that went out before the first body byte is the one
\* derived from the request: 206 for a range request, 200 otherwise.
StatusBeforeBody(ranged) ==
  /\ status = IF ranged THEN 206 ELSE 200
  /\ \A i \in At("w.WriteHeader"), j \in At("w.Write") : i < j

\* The headers in force when the first body byte went out carry the length
\* (and the range) derived from the Item.
LengthBeforeBody(ranged) ==
  /\ "Content-Length" \in DOMAIN header
  /\ ~ranged => header["Content-Length"] = returned.size
  /\ ranged =>
       /\ "Content-Range" \in DOMAIN header
       /\ header["Content-Range"][3] = returned.size

\* C18 as stated: in every GET, Read has returned before any body byte is
\* written, and when the stream is copied the status and the Content-Length
\* (and the Content-Range of a range request) derived from the Item are
\* already set; after a failed Read no byte of the backend is written.
C18_MetadataFirstAsClaimed ==
  GetServed =>
    LET ranged == req.range # <<>>
    IN  /\ ReadBeforeBody
        /\ Streamed => StatusBeforeBody(ranged) /\ LengthBeforeBody(ranged)

\* C18, amended: as stated for the GET of a file; the GET of a directory
\* (its index.html) also copies the stream only after Read has returned, but
\* it discards the Item, ignores the Range header and sends status 200 with
\* no Content-Length and no Content-Range.
C18_MetadataFirstAmended ==
  GetServed =>
    LET isDir  == HasSlashSuffix(ReqPath(req))
        ranged == req.range # <<>>
    IN  /\ ReadBeforeBody
        /\ Streamed /\ ~isDir => StatusBeforeBody(ranged) /\ LengthBeforeBody(ranged)
        /\ Streamed /\ isDir =>
             /\ StatusBeforeBody(FALSE)
             /\ "Content-Length" \notin DOMAIN header
             /\ "Content-Range" \notin DOMAIN header

\* A range request for a file was streamed with status 206.
C18_Witness ==
  /\ GetServed
  /\ ~HasSlashSuffix(ReqPath(req))
  /\ req.range # <<>>
  /\ Streamed
  /\ status = 206
  /\ "Content-Length" \in DOMAIN header

\* -------------------------------------------------------------------- C19

\* C19: every request is handled to completion with a response: no handler
\* goroutine panics on an index out of range, whatever the Authorization
\* header and however many path segments follow "images".
C19_NoIndexFault ==
  pc = "done" => ~panicked /\ status # 0

\* -------------------------------------------------------------------- C20

\* A GET with a Range header that parsed, whose Read succeeded, was answered
\* 206.
RangeServed ==
  /\ pc = "done"
  /\ handler = "serveItem"
  /\ ~panicked
  /\ req.range # <<>>
  /\ returned.kind = "ok"
  /\ status = 206

\* The bytes the Read call asked the backend for: length, or with length 0
\* what is left of the file after offset.
Requested(offset, length, size) ==
  IF length = 0 THEN size - offset ELSE length

\* C20: every 206 response is consistent: its Content-Length is not
\* negative, the end of its Content-Range is at least the start and at most
\* N - 1 for a file of size N, and the number of bytes asked of the backend
\* equals the Content-Length.
C20_RangeConsistent ==
  RangeServed =>
    LET cr   == header["Content-Range"]
        cl   == header["Content-Length"]
        read == Calls("Read")[1].args
    IN  /\ cl >= 0
        /\ cr[2] >= cr[1]
        /\ cr[2] <= returned.size - 1
        /\ Requested(read[2], read[3], returned.size) = cl

\* -------------------------------------------------------------------- C21

\* C21: once Run has returned because its context was cancelled, the
\* goroutine that runs ListenAndServe eventually terminates: its send on
\* serverDone completes.
C21_ServeGoroutineExits ==
  ReturnedOnCancel ~> (servePc = "exited")

====
